---- MODULE Spec2Model ----
(***************************************************************************)
(* Model of the burnbench harness of backend-comparison:                   *)
(*   - burnbenchapp/base.rs : execute, command_run, run_cargo              *)
(*   - burnbenchapp/auth.rs : save_token, get_token_from_cache             *)
(*   - benches/unary.rs     : UnaryBenchmark, bench                        *)
(***************************************************************************)
EXTENDS Integers, Sequences, FiniteSets, TLC

\* ------------------------------------------------------------------ bounds
MaxSel == 2          \* longest backends / benches list given on the command line
MaxChildCode == 2    \* largest exit code a cargo child terminates with
MaxRepeats == 3      \* largest num_repeats a UnaryBenchmark is constructed with
MaxDuration == 2     \* largest elapsed time of one timed sample
MaxLen == 3          \* longest token and longest cache file content, in characters

\* --------------------------------------------------------------- constants
DefaultExitCode == 1     \* status.code().unwrap_or(1)
PanicExitCode == 101     \* exit status of a Rust process whose main thread panicked

\* a few of the values of the two ValueEnum types
BackendValues == {"ndarray", "wgpu"}
BenchmarkValues == {"unary", "matmul"}

NoCode == -1             \* ExitStatus::code() == None (killed by a signal)
NotWaited == -2          \* cargo.wait() has not returned for the cell
NoChild == <<>>          \* no cargo child is running
NotExited == -3          \* the harness process is still running

SeqsUpTo(S, n) == UNION {[1..k -> S] : k \in 0..n}

VARIABLES
  pc,          \* position of the harness process
  run_args,    \* RunArgs {backends, benches}
  stdout,      \* messages printed by command_run, in order
  appLog,      \* calls made on the App, in order
  bi, ni,      \* loop indices of App::run over backends / benches
  cells,       \* per cell (position of the matrix): state of its child
  spawned,     \* per cell: number of Command::spawn calls that succeeded
  childCode,   \* per cell: what cargo.wait() returned, once waited for
  child,       \* the cell whose cargo child is running, or NoChild
  spawnError,  \* the cell whose spawn failed, or NoChild
  exitStatus   \* exit status of the harness process, NotExited while running

runVars == <<pc, run_args, stdout, appLog, bi, ni, cells, spawned, childCode,
             child, spawnError, exitStatus>>

\* state of one bench run of benches/unary.rs
VARIABLES
  bpc,              \* position of the bench process
  num_repeats,      \* UnaryBenchmark.num_repeats
  rep,                \* index of the current repeat of the measurement
  prepareCalls,     \* number of prepare calls
  executeCalls,     \* number of execute calls
  syncCalls,        \* number of sync calls
  tanhCalls,        \* number of B::tanh calls, over all execute calls
  lastExecuteTanh,  \* number of B::tanh calls made by the latest execute call
  durations,        \* the samples of the measurement, in execution order
  benchResult       \* outcome of the cell

benchVars == <<bpc, num_repeats, rep, prepareCalls, executeCalls, syncCalls,
               tanhCalls, lastExecuteTanh, durations, benchResult>>

\* the token cache file of burnbenchapp/auth.rs and the calls made on it
VARIABLES
  dirExists,    \* the cache directory (the parent of token.txt) exists
  fileExists,   \* token.txt exists
  fileContent,  \* content of token.txt, a sequence of characters
  fileMode,     \* permission bits of token.txt
  lastOp,       \* the latest call made on the cache
  panicked,     \* the latest call panicked
  ret,          \* Option<String> returned by the latest get_token_from_cache
  saved,        \* Some(token) of the latest save_token, None once written over
  prevLen       \* length of token.txt before the latest call, NoFileLen if absent

authVars == <<dirExists, fileExists, fileContent, fileMode, lastOp, panicked,
              ret, saved, prevLen>>

\* one run of `burnbench auth`: command_auth and the save_token it calls
VARIABLES
  apc,          \* position of the process inside command_auth / save_token
  startResult,  \* outcome of DeviceFlow::start: "none", "ok" or "err"
  pollResult,   \* outcome of flow.poll: "none", "ok" or "err"
  flowToken,    \* Some(creds.token) once flow.poll has returned Ok
  saveCalls,    \* the tokens save_token has been called with, in order
  holdsToken,   \* token.txt holds bytes of a token written by save_token
  cache0        \* the cache on disk when command_auth was entered

cmdVars == <<apc, startResult, pollResult, flowToken, saveCalls, holdsToken, cache0>>

fileVars == <<dirExists, fileExists, fileContent, fileMode>>

vars == <<runVars, benchVars, authVars, cmdVars>>

\* ------------------------------------------------------------ the matrix
CellsOf(args) ==
  {<<i, j>> : i \in 1..Len(args.backends), j \in 1..Len(args.benches)}

\* what cargo.wait() can return on unix: an exit code of 8 bits, or no code
ChildStatuses == (0..MaxChildCode) \cup {255, NoCode}

\* ExitStatus::success(): the child exited with code 0
success(status) == status = 0

\* std::process::exit(code): the parent observes the low 8 bits
process_exit(code) == code % 256

\* ------------------------------------------------------------- execute()
\* Args::parse() and the dispatch on Commands::Run
execute ==
  /\ pc = "execute"
  /\ \E bk \in SeqsUpTo(BackendValues, MaxSel), bn \in SeqsUpTo(BenchmarkValues, MaxSel) :
       LET args == [backends |-> bk, benches |-> bn] IN
       /\ run_args' = args
       /\ cells' = [c \in CellsOf(args) |-> "Pending"]
       /\ spawned' = [c \in CellsOf(args) |-> 0]
       /\ childCode' = [c \in CellsOf(args) |-> NotWaited]
  /\ pc' = "command_run"
  /\ UNCHANGED <<stdout, appLog, bi, ni, child, spawnError, exitStatus>>
  /\ UNCHANGED <<benchVars, authVars, cmdVars>>

\* --------------------------------------------------------- command_run()
\* variant: the two emptiness tests joined by && instead of ||
SelectionIsEmpty_and(args) == args.backends = <<>> /\ args.benches = <<>>

\* run_args.backends.is_empty() || run_args.benches.is_empty()
SelectionIsEmpty(args) == args.backends = <<>> \/ args.benches = <<>>

\* the early return of command_run; execute and main return after it
command_run_empty ==
  /\ pc = "command_run"
  /\ SelectionIsEmpty(run_args)
  /\ stdout' = Append(stdout, "no_selection")
  /\ pc' = "exited"
  /\ exitStatus' = 0
  /\ UNCHANGED <<run_args, appLog, bi, ni, cells, spawned, childCode, child, spawnError>>
  /\ UNCHANGED <<benchVars, authVars, cmdVars>>

\* App::new(), app.init() and the entry of app.run()
command_run_start ==
  /\ pc = "command_run"
  /\ ~SelectionIsEmpty(run_args)
  /\ stdout' = stdout \o <<"executing", "running">>
  /\ appLog' = appLog \o <<[call |-> "new"], [call |-> "init"],
                           [call |-> "run", benches |-> run_args.benches,
                            backends |-> run_args.backends]>>
  /\ bi' = IF run_args.benches = <<>> THEN Len(run_args.backends) + 1 ELSE 1
  /\ ni' = 1
  /\ pc' = "run_cargo"
  /\ UNCHANGED <<run_args, cells, spawned, childCode, child, spawnError, exitStatus>>
  /\ UNCHANGED <<benchVars, authVars, cmdVars>>

\* ------------------------------------------------------------ run_cargo()
\* Command::new("cargo")...spawn().expect("cargo process should run")
run_cargo_spawn(c, ok) ==
  IF ok
  THEN /\ cells' = [cells EXCEPT ![c] = "Launched"]
       /\ spawned' = [spawned EXCEPT ![c] = @ + 1]
       /\ child' = c
       /\ pc' = "wait"
       /\ UNCHANGED <<spawnError, exitStatus>>
  ELSE /\ spawnError' = c
       /\ pc' = "exited"
       /\ exitStatus' = PanicExitCode
       /\ UNCHANGED <<cells, spawned, child>>

\* App::run's loop: the next cell after <<bi, ni>>, benches innermost
run_next ==
  IF ni < Len(run_args.benches)
  THEN /\ ni' = ni + 1
       /\ bi' = bi
  ELSE /\ ni' = 1
       /\ bi' = bi + 1

\* variant: a child without an exit code is reported with unwrap_or(0)
run_cargo_wait_code0(c, status) ==
  /\ childCode' = [childCode EXCEPT ![c] = status]
  /\ child' = NoChild
  /\ IF success(status)
     THEN /\ cells' = [cells EXCEPT ![c] = "Succeeded"]
          /\ run_next
          /\ pc' = "run_cargo"
          /\ UNCHANGED exitStatus
     ELSE /\ cells' = [cells EXCEPT ![c] = "Failed"]
          /\ exitStatus' = process_exit(IF status = NoCode THEN 0 ELSE status)
          /\ pc' = "exited"
          /\ UNCHANGED <<bi, ni>>

\* variant: a failed child is run again instead of ending the process
run_cargo_wait_retry(c, status) ==
  /\ childCode' = [childCode EXCEPT ![c] = status]
  /\ child' = NoChild
  /\ pc' = "run_cargo"
  /\ UNCHANGED exitStatus
  /\ IF success(status)
     THEN /\ cells' = [cells EXCEPT ![c] = "Succeeded"]
          /\ run_next
     ELSE /\ cells' = [cells EXCEPT ![c] = "Pending"]
          /\ UNCHANGED <<bi, ni>>

\* variant: an unsuccessful child is recorded and run_cargo returns
run_cargo_wait_continue(c, status) ==
  /\ childCode' = [childCode EXCEPT ![c] = status]
  /\ child' = NoChild
  /\ cells' = [cells EXCEPT ![c] = IF success(status) THEN "Succeeded" ELSE "Failed"]
  /\ run_next
  /\ pc' = "run_cargo"
  /\ UNCHANGED exitStatus

\* cargo.wait() and the test of the status
run_cargo_wait(c, status) ==
  /\ childCode' = [childCode EXCEPT ![c] = status]
  /\ child' = NoChild
  /\ IF success(status)
     THEN /\ cells' = [cells EXCEPT ![c] = "Succeeded"]
          /\ run_next
          /\ pc' = "run_cargo"
          /\ UNCHANGED exitStatus
     ELSE /\ cells' = [cells EXCEPT ![c] = "Failed"]
          /\ exitStatus' = process_exit(IF status = NoCode THEN DefaultExitCode ELSE status)
          /\ pc' = "exited"
          /\ UNCHANGED <<bi, ni>>

\* one iteration of App::run: the call of run_cargo for the cell <<bi, ni>>
app_run_spawn ==
  /\ pc = "run_cargo"
  /\ bi <= Len(run_args.backends)
  /\ \E ok \in BOOLEAN : run_cargo_spawn(<<bi, ni>>, ok)
  /\ UNCHANGED <<run_args, stdout, appLog, bi, ni, childCode>>
  /\ UNCHANGED <<benchVars, authVars, cmdVars>>

\* the cargo child terminates and run_cargo's wait returns
app_run_wait ==
  /\ pc = "wait"
  /\ \E status \in ChildStatuses : run_cargo_wait(child, status)
  /\ UNCHANGED <<run_args, stdout, appLog, spawned, spawnError>>
  /\ UNCHANGED <<benchVars, authVars, cmdVars>>

\* app.run() returned: app.cleanup(), the last println, return to main
command_run_finish ==
  /\ pc = "run_cargo"
  /\ bi > Len(run_args.backends)
  /\ appLog' = Append(appLog, [call |-> "cleanup"])
  /\ stdout' = Append(stdout, "cleanup_completed")
  /\ pc' = "exited"
  /\ exitStatus' = 0
  /\ UNCHANGED <<run_args, bi, ni, cells, spawned, childCode, child, spawnError>>
  /\ UNCHANGED <<benchVars, authVars, cmdVars>>

InitRun ==
  /\ pc = "execute"
  /\ run_args = [backends |-> <<>>, benches |-> <<>>]
  /\ stdout = <<>>
  /\ appLog = <<>>
  /\ bi = 0
  /\ ni = 0
  /\ cells = <<>>
  /\ spawned = <<>>
  /\ childCode = <<>>
  /\ child = NoChild
  /\ spawnError = NoChild
  /\ exitStatus = NotExited

\* ------------------------------------------------------- benches/unary.rs
\* UnaryBenchmark::execute: for _ in 0..self.num_repeats() { B::tanh(..) },
\* as the number of B::tanh calls made from iteration k on
RECURSIVE UnaryBenchmark_execute(_, _)
UnaryBenchmark_execute(k, n) ==
  IF k < n THEN 1 + UnaryBenchmark_execute(k + 1, n) ELSE 0

\* UnaryBenchmark::new(shape, num_repeats, device), as bench() calls it
bench_new ==
  /\ bpc = "new"
  /\ \E n \in 0..MaxRepeats : num_repeats' = n
  /\ bpc' = "run_benchmark"
  /\ UNCHANGED <<rep, prepareCalls, executeCalls, syncCalls, tanhCalls,
                 lastExecuteTanh, durations, benchResult>>
  /\ UNCHANGED <<runVars, authVars, cmdVars>>

\* variant: the engine starts the protocol without testing the repeat count
run_benchmark_begin_nocheck ==
  /\ bpc = "run_benchmark"
  /\ prepareCalls' = prepareCalls + 1
  /\ rep' = 0
  /\ bpc' = "execute"
  /\ UNCHANGED <<num_repeats, executeCalls, syncCalls, tanhCalls,
                 lastExecuteTanh, durations, benchResult>>
  /\ UNCHANGED <<runVars, authVars, cmdVars>>

\* run_benchmark: a repeat count of 0 is rejected before any timing begins;
\* otherwise prepare is called once
run_benchmark_begin ==
  /\ bpc = "run_benchmark"
  /\ IF num_repeats = 0
     THEN /\ benchResult' = "ContractViolation"
          /\ bpc' = "done"
          /\ UNCHANGED <<rep, prepareCalls>>
     ELSE /\ prepareCalls' = prepareCalls + 1
          /\ rep' = 0
          /\ bpc' = "execute"
          /\ UNCHANGED benchResult
  /\ UNCHANGED <<num_repeats, executeCalls, syncCalls, tanhCalls,
                 lastExecuteTanh, durations>>
  /\ UNCHANGED <<runVars, authVars, cmdVars>>

\* run_benchmark, one repeat: the start timestamp and the call of execute
run_benchmark_execute ==
  /\ bpc = "execute"
  /\ rep < num_repeats
  /\ executeCalls' = executeCalls + 1
  /\ lastExecuteTanh' = UnaryBenchmark_execute(0, num_repeats)
  /\ tanhCalls' = tanhCalls + UnaryBenchmark_execute(0, num_repeats)
  /\ bpc' = "sync"
  /\ UNCHANGED <<num_repeats, rep, prepareCalls, syncCalls, durations, benchResult>>
  /\ UNCHANGED <<runVars, authVars, cmdVars>>

\* run_benchmark, one repeat: sync, the end timestamp and the new sample
run_benchmark_sync ==
  /\ bpc = "sync"
  /\ syncCalls' = syncCalls + 1
  /\ \E d \in 0..MaxDuration : durations' = Append(durations, d)
  /\ rep' = rep + 1
  /\ bpc' = "execute"
  /\ UNCHANGED <<num_repeats, prepareCalls, executeCalls, tanhCalls,
                 lastExecuteTanh, benchResult>>
  /\ UNCHANGED <<runVars, authVars, cmdVars>>

\* run_benchmark returns the measurement and bench() saves it
run_benchmark_end ==
  /\ bpc = "execute"
  /\ rep >= num_repeats
  /\ benchResult' = "Measurement"
  /\ bpc' = "done"
  /\ UNCHANGED <<num_repeats, rep, prepareCalls, executeCalls, syncCalls,
                 tanhCalls, lastExecuteTanh, durations>>
  /\ UNCHANGED <<runVars, authVars, cmdVars>>

InitBench ==
  /\ bpc = "new"
  /\ num_repeats = 0
  /\ rep = 0
  /\ prepareCalls = 0
  /\ executeCalls = 0
  /\ syncCalls = 0
  /\ tanhCalls = 0
  /\ lastExecuteTanh = 0
  /\ durations = <<>>
  /\ benchResult = "none"

NextBench ==
  \/ bench_new
  \/ run_benchmark_begin
  \/ run_benchmark_execute
  \/ run_benchmark_sync
  \/ run_benchmark_end

\* -------------------------------------------------- burnbenchapp/auth.rs
LF == "\n"
CR == "\r"
Chars == {"a", "b", CR, LF}
Strings == SeqsUpTo(Chars, MaxLen)

None == <<>>
Some(x) == <<x>>

ModeUserOnly == 384      \* 0o600
ModeNewFile == 420       \* 0o644: 0o666 of File::create under the umask 0o022
ModeReadOnly == 292      \* 0o444
ModeNoAccess == 0        \* 0o000
Modes == {ModeUserOnly, ModeNewFile, ModeReadOnly, ModeNoAccess}
NoFileLen == -1

OwnerCanRead(mode) == (mode \div 256) % 2 = 1
OwnerCanWrite(mode) == (mode \div 128) % 2 = 1

\* position of the first LF of s, 0 if there is none
FirstLF(s) ==
  IF \E k \in 1..Len(s) : s[k] = LF
  THEN CHOOSE k \in 1..Len(s) : s[k] = LF /\ \A j \in 1..(k - 1) : s[j] # LF
  ELSE 0

\* str::strip_suffix('\r'), the line itself when it has no such suffix
strip_cr(line) ==
  IF line # <<>> /\ line[Len(line)] = CR
  THEN SubSeq(line, 1, Len(line) - 1)
  ELSE line

\* variant: the CR that ends the last, unterminated line is stripped too
RECURSIVE lines_strip_bare_cr(_)
lines_strip_bare_cr(s) ==
  IF s = <<>> THEN <<>>
  ELSE IF FirstLF(s) = 0 THEN <<strip_cr(s)>>
  ELSE <<strip_cr(SubSeq(s, 1, FirstLF(s) - 1))>>
         \o lines_strip_bare_cr(SubSeq(s, FirstLF(s) + 1, Len(s)))

\* str::lines(): split after every LF; a line loses its LF, and the CR
\* before that LF; a last line without LF is kept as it is
RECURSIVE lines(_)
lines(s) ==
  IF s = <<>> THEN <<>>
  ELSE IF FirstLF(s) = 0 THEN <<s>>
  ELSE <<strip_cr(SubSeq(s, 1, FirstLF(s) - 1))>>
         \o lines(SubSeq(s, FirstLF(s) + 1, Len(s)))

\* str::split('\n'): the pieces between the LFs, at least one piece
RECURSIVE split_lf(_)
split_lf(s) ==
  IF FirstLF(s) = 0 THEN <<s>>
  ELSE <<SubSeq(s, 1, FirstLF(s) - 1)>> \o split_lf(SubSeq(s, FirstLF(s) + 1, Len(s)))

\* fs::read_to_string(&path) succeeds
read_ok(exists, mode) == exists /\ OwnerCanRead(mode)

\* variant: contents.lines().last()
get_token_from_cache_last(exists, mode, content) ==
  IF read_ok(exists, mode)
  THEN IF lines(content) = <<>> THEN None
       ELSE Some(lines(content)[Len(lines(content))])
  ELSE None

\* variant: contents.split('\n').next()
get_token_from_cache_split(exists, mode, content) ==
  IF read_ok(exists, mode)
  THEN Some(Head(split_lf(content)))
  ELSE None

\* get_token_from_cache(): contents.lines().next().map(str::to_string)
get_token_from_cache(exists, mode, content) ==
  IF read_ok(exists, mode)
  THEN IF lines(content) = <<>> THEN None ELSE Some(Head(lines(content)))
  ELSE None

\* a write of bytes at offset 0 of a file that holds old
file_write(old, bytes) == bytes \o SubSeq(old, Len(bytes) + 1, Len(old))

\* File::create(&path) fails on an existing file the owner cannot write
create_ok(exists, mode) == ~exists \/ OwnerCanWrite(mode)

\* variant: the file is opened for writing without being truncated
save_token_notrunc(token) ==
  /\ dirExists' = TRUE
  /\ lastOp' = "save_token"
  /\ ret' = None
  /\ prevLen' = IF fileExists THEN Len(fileContent) ELSE NoFileLen
  /\ IF create_ok(fileExists, fileMode)
     THEN /\ fileExists' = TRUE
          /\ fileContent' = file_write(fileContent, token)
          /\ fileMode' = ModeUserOnly
          /\ panicked' = FALSE
          /\ saved' = Some(token)
     ELSE /\ panicked' = TRUE
          /\ saved' = None
          /\ UNCHANGED <<fileExists, fileContent, fileMode>>

\* save_token(token): create_dir_all, File::create (which truncates),
\* write!(file, "{}", token), set_permissions(0o600)
save_token(token) ==
  /\ dirExists' = TRUE
  /\ lastOp' = "save_token"
  /\ ret' = None
  /\ prevLen' = IF fileExists THEN Len(fileContent) ELSE NoFileLen
  /\ IF create_ok(fileExists, fileMode)
     THEN /\ fileExists' = TRUE
          /\ fileContent' = file_write(<<>>, token)
          /\ fileMode' = ModeUserOnly
          /\ panicked' = FALSE
          /\ saved' = Some(token)
     ELSE /\ panicked' = TRUE
          /\ saved' = None
          /\ UNCHANGED <<fileExists, fileContent, fileMode>>

\* a call of save_token with some token
save_token_call ==
  /\ \E token \in Strings : save_token(token)
  /\ UNCHANGED <<runVars, benchVars, cmdVars>>

\* a call of get_token_from_cache
get_token_from_cache_call ==
  /\ ret' = get_token_from_cache(fileExists, fileMode, fileContent)
  /\ lastOp' = "get_token_from_cache"
  /\ panicked' = FALSE
  /\ prevLen' = IF fileExists THEN Len(fileContent) ELSE NoFileLen
  /\ UNCHANGED <<dirExists, fileExists, fileContent, fileMode, saved>>
  /\ UNCHANGED <<runVars, benchVars, cmdVars>>

\* the tests' own write of the cache file: create_dir_all, File::create, write!
test_write_file ==
  /\ create_ok(fileExists, fileMode)
  /\ \E text \in Strings : fileContent' = file_write(<<>>, text)
  /\ dirExists' = TRUE
  /\ fileExists' = TRUE
  /\ fileMode' = IF fileExists THEN fileMode ELSE ModeNewFile
  /\ lastOp' = "write"
  /\ panicked' = FALSE
  /\ ret' = None
  /\ saved' = None
  /\ prevLen' = IF fileExists THEN Len(fileContent) ELSE NoFileLen
  /\ UNCHANGED <<runVars, benchVars, cmdVars>>

\* cleanup_test_environment(): remove_file, then remove_dir_all of the parent
cleanup_test_environment ==
  /\ dirExists' = FALSE
  /\ fileExists' = FALSE
  /\ fileContent' = <<>>
  /\ fileMode' = ModeNoAccess
  /\ lastOp' = "cleanup"
  /\ panicked' = FALSE
  /\ ret' = None
  /\ saved' = None
  /\ prevLen' = IF fileExists THEN Len(fileContent) ELSE NoFileLen
  /\ UNCHANGED <<runVars, benchVars, cmdVars>>

\* no call made yet on the cache
AuthIdle ==
  /\ lastOp = "none"
  /\ panicked = FALSE
  /\ ret = None
  /\ saved = None
  /\ prevLen = NoFileLen

\* the cache as a run of the harness leaves it alone: nothing on disk
NoCache ==
  /\ dirExists = FALSE
  /\ fileExists = FALSE
  /\ fileContent = <<>>
  /\ fileMode = ModeNoAccess

\* the cache on disk when the first call is made: any file, or none
AnyCache ==
  /\ dirExists \in BOOLEAN
  /\ fileExists \in BOOLEAN
  /\ fileContent \in Strings
  /\ fileMode \in Modes
  /\ fileExists => dirExists
  /\ ~fileExists => (fileContent = <<>> /\ fileMode = ModeNoAccess)

\* the cache on disk, as command_auth finds it
CacheOnDisk ==
  [dir |-> dirExists, exists |-> fileExists, content |-> fileContent, mode |-> fileMode]

\* the record of a cache with nothing on disk
EmptyCache ==
  [dir |-> FALSE, exists |-> FALSE, content |-> <<>>, mode |-> ModeNoAccess]

\* `burnbench auth` is not the command that runs
CmdIdle ==
  /\ apc = "command_auth"
  /\ startResult = "none"
  /\ pollResult = "none"
  /\ flowToken = None
  /\ saveCalls = <<>>
  /\ holdsToken = FALSE
  /\ cache0 = EmptyCache

\* the entry of command_auth
CmdEntry ==
  /\ apc = "command_auth"
  /\ startResult = "none"
  /\ pollResult = "none"
  /\ flowToken = None
  /\ saveCalls = <<>>
  /\ holdsToken = FALSE
  /\ cache0 = CacheOnDisk

InitAuth == InitRun /\ InitBench /\ AuthIdle /\ AnyCache /\ CmdIdle

\* ---------------------------------------------------------- command_auth()
\* the access tokens the device flow hands out
FlowTokens == SeqsUpTo({"a", "b"}, MaxLen)

\* DeviceFlow::start(&CLIENT_ID, None): on Err the error is printed and
\* command_auth returns; on Ok the URL and the code are printed, the code is
\* copied to the clipboard and the thread sleeps
command_auth_start ==
  /\ apc = "command_auth"
  /\ \E ok \in BOOLEAN :
       /\ startResult' = IF ok THEN "ok" ELSE "err"
       /\ apc' = IF ok THEN "poll" ELSE "returned"
  /\ UNCHANGED <<pollResult, flowToken, saveCalls, holdsToken, cache0>>
  /\ UNCHANGED <<runVars, benchVars, authVars>>

\* variant: the token of a failed poll, an empty one, is saved as well
command_auth_poll_save_always(res) ==
  /\ pollResult' = IF res = None THEN "err" ELSE "ok"
  /\ flowToken' = res
  /\ saveCalls' = Append(saveCalls, IF res = None THEN <<>> ELSE res[1])
  /\ apc' = "create_dir_all"

\* match flow.poll(20): Ok(creds) => save_token(&creds.token),
\* Err(e) => the error is printed; res is Some(creds.token) or None
command_auth_poll(res) ==
  /\ pollResult' = IF res = None THEN "err" ELSE "ok"
  /\ flowToken' = res
  /\ IF res = None
     THEN /\ apc' = "returned"
          /\ UNCHANGED saveCalls
     ELSE /\ saveCalls' = Append(saveCalls, res[1])
          /\ apc' = "create_dir_all"

\* flow.poll(20) returns
command_auth_poll_call ==
  /\ apc = "poll"
  /\ \E res \in {None} \cup {Some(t) : t \in FlowTokens} : command_auth_poll(res)
  /\ UNCHANGED <<startResult, holdsToken, cache0>>
  /\ UNCHANGED <<runVars, benchVars, authVars>>

\* the token of the save_token call in progress
CurrentToken == saveCalls[Len(saveCalls)]

\* save_token, first statement: fs::create_dir_all(path.parent())
save_token_create_dir ==
  /\ apc = "create_dir_all"
  /\ dirExists' = TRUE
  /\ apc' = "File::create"
  /\ UNCHANGED <<fileExists, fileContent, fileMode, lastOp, panicked, ret, saved, prevLen>>
  /\ UNCHANGED <<startResult, pollResult, flowToken, saveCalls, holdsToken, cache0>>
  /\ UNCHANGED <<runVars, benchVars>>

\* save_token: File::create(&path).expect("file should be created"); a new
\* file gets the mode of the umask, an existing one is truncated and keeps
\* its mode
save_token_file_create ==
  /\ apc = "File::create"
  /\ IF create_ok(fileExists, fileMode)
     THEN /\ fileExists' = TRUE
          /\ fileContent' = <<>>
          /\ fileMode' = IF fileExists THEN fileMode ELSE ModeNewFile
          /\ holdsToken' = FALSE
          /\ apc' = "write"
          /\ UNCHANGED <<lastOp, panicked, ret, saved, prevLen>>
     ELSE /\ apc' = "panicked"
          /\ lastOp' = "save_token"
          /\ panicked' = TRUE
          /\ ret' = None
          /\ saved' = None
          /\ prevLen' = IF cache0.exists THEN Len(cache0.content) ELSE NoFileLen
          /\ UNCHANGED <<fileExists, fileContent, fileMode, holdsToken>>
  /\ UNCHANGED dirExists
  /\ UNCHANGED <<startResult, pollResult, flowToken, saveCalls, cache0>>
  /\ UNCHANGED <<runVars, benchVars>>

\* save_token: write!(file, "{}", token)
save_token_write ==
  /\ apc = "write"
  /\ fileContent' = file_write(fileContent, CurrentToken)
  /\ holdsToken' = (CurrentToken # <<>>)
  /\ apc' = "set_permissions"
  /\ UNCHANGED <<dirExists, fileExists, fileMode, lastOp, panicked, ret, saved, prevLen>>
  /\ UNCHANGED <<startResult, pollResult, flowToken, saveCalls, cache0>>
  /\ UNCHANGED <<runVars, benchVars>>

\* variant: the permissions of the file are left as File::create made them
set_permissions_skipped(mode) == fileMode

\* fs::set_permissions(&path, fs::Permissions::from_mode(mode))
set_permissions(mode) == mode

\* save_token: set_permissions to 0o600, the println, and the return of
\* save_token and of command_auth
save_token_set_permissions ==
  /\ apc = "set_permissions"
  /\ fileMode' = set_permissions(ModeUserOnly)
  /\ apc' = "returned"
  /\ lastOp' = "save_token"
  /\ panicked' = FALSE
  /\ ret' = None
  /\ saved' = Some(CurrentToken)
  /\ prevLen' = IF cache0.exists THEN Len(cache0.content) ELSE NoFileLen
  /\ UNCHANGED <<dirExists, fileExists, fileContent>>
  /\ UNCHANGED <<startResult, pollResult, flowToken, saveCalls, holdsToken, cache0>>
  /\ UNCHANGED <<runVars, benchVars>>

InitCmdAuth == InitRun /\ InitBench /\ AuthIdle /\ AnyCache /\ CmdEntry

NextCmdAuth ==
  \/ command_auth_start
  \/ command_auth_poll_call
  \/ save_token_create_dir
  \/ save_token_file_create
  \/ save_token_write
  \/ save_token_set_permissions

NextAuth ==
  \/ save_token_call
  \/ get_token_from_cache_call
  \/ test_write_file
  \/ cleanup_test_environment

Init == InitRun /\ InitBench /\ AuthIdle /\ NoCache /\ CmdIdle

Next ==
  \/ execute
  \/ command_run_empty
  \/ command_run_start
  \/ app_run_spawn
  \/ app_run_wait
  \/ command_run_finish

Spec == Init /\ [][Next]_vars

SpecBench == Init /\ [][NextBench]_vars

SpecAuth == InitAuth /\ [][NextAuth]_vars

SpecCmdAuth == InitCmdAuth /\ [][NextCmdAuth]_vars

\* ================================================================ claims
NumCells == Len(run_args.backends) * Len(run_args.benches)

\* C1 (as claimed): when the child of one cell cannot be launched or ends
\* unsuccessfully, the harness does not terminate before every sibling cell
\* of a matrix of two or more cells has been launched.
C1_FailureDoesNotAbortSiblings ==
  (/\ pc = "exited"
   /\ NumCells >= 2
   /\ (spawnError # NoChild \/ \E c \in DOMAIN cells : cells[c] = "Failed"))
  => \A c \in DOMAIN cells : c = spawnError \/ spawned[c] >= 1

\* C2: once a child has terminated unsuccessfully the harness exits with the
\* child's exit code, or with 1 when the child has none, which is never 0;
\* the harness exits with 0 only if every launched child succeeded.
C2_ExitStatusReflectsFailure ==
  pc = "exited" =>
    /\ \A c \in DOMAIN cells :
         cells[c] = "Failed" =>
           /\ exitStatus # 0
           /\ exitStatus = (IF childCode[c] = NoCode THEN 1 ELSE childCode[c])
    /\ exitStatus = 0 =>
         /\ spawnError = NoChild
         /\ \A c \in DOMAIN cells : spawned[c] >= 1 => cells[c] = "Succeeded"

C2_Witness ==
  /\ pc = "exited"
  /\ \E c, d \in DOMAIN cells :
       /\ cells[c] = "Succeeded"
       /\ cells[d] = "Failed"
       /\ childCode[d] = NoCode
       /\ exitStatus = 1

\* C3: with an empty backends list or an empty benches list command_run only
\* prints its message and returns: no App is created, init, run and cleanup
\* are not called, no child is spawned, and the process ends with status 0.
C3_EmptySelectionIsNoOp ==
  (/\ pc \notin {"execute", "command_run"}
   /\ (Len(run_args.backends) = 0 \/ Len(run_args.benches) = 0))
  => /\ pc = "exited"
     /\ stdout = <<"no_selection">>
     /\ appLog = <<>>
     /\ child = NoChild
     /\ spawnError = NoChild
     /\ \A c \in DOMAIN spawned : spawned[c] = 0
     /\ exitStatus = 0

C3_Witness ==
  /\ pc = "exited"
  /\ Len(run_args.backends) = 0
  /\ Len(run_args.benches) > 0
  /\ stdout = <<"no_selection">>

\* C4: each cell goes Pending -> Launched -> {Succeeded, Failed}: its child
\* is spawned at most once, its outcome is set only by the wait on its child,
\* Succeeded and Failed are final, and a Failed cell is not launched again.
C4_CellStep ==
  \A c \in DOMAIN cells :
    /\ cells[c] = "Pending" => cells'[c] \in {"Pending", "Launched"}
    /\ cells[c] = "Launched" => cells'[c] \in {"Launched", "Succeeded", "Failed"}
    /\ cells[c] \in {"Succeeded", "Failed"} => cells'[c] = cells[c]
    /\ (cells[c] = "Pending" /\ cells'[c] = "Launched") <=> spawned'[c] = spawned[c] + 1
    /\ spawned'[c] \in {spawned[c], spawned[c] + 1}
    /\ spawned'[c] <= 1
    /\ (cells[c] = "Launched" /\ cells'[c] # "Launched") =>
         (child = c /\ childCode[c] = NotWaited /\ childCode'[c] # NotWaited)
    /\ cells'[c] = "Succeeded" <=> childCode'[c] = 0
    /\ cells'[c] = "Failed" <=> childCode'[c] \notin {0, NotWaited}

\* C4: every step of the harness is a step of the cell state machine.
C4_CellStateMachine == [][C4_CellStep]_vars

C4_Witness ==
  \E c, d \in DOMAIN cells :
    /\ cells[c] = "Succeeded"
    /\ cells[d] = "Failed"
    /\ spawned[c] = 1
    /\ spawned[d] = 1

\* C5: a benchmark whose repeat count is 0 is rejected as a contract
\* violation before any timed call: no execute call and no B::tanh call is
\* made and no sample is recorded.
C5_ZeroRepeatsRejected ==
  (bpc # "new" /\ num_repeats = 0) =>
    /\ executeCalls = 0
    /\ tanhCalls = 0
    /\ durations = <<>>
    /\ bpc \in {"run_benchmark", "done"}
    /\ bpc = "done" => benchResult = "ContractViolation"

C5_Witness ==
  /\ bpc = "done"
  /\ num_repeats = 0
  /\ benchResult = "ContractViolation"
  /\ executeCalls = 0

\* C6 (as claimed): for every repeat count of 1 or more, one call of execute
\* applies the kernel B::tanh exactly once.
C6_ExecuteIsOneUnit ==
  (num_repeats >= 1 /\ executeCalls >= 1) => lastExecuteTanh = 1

HasLF(s) == \E k \in 1..Len(s) : s[k] = LF

\* C7: after save_token(t), for a non-empty t without line feed, a call of
\* get_token_from_cache with no write of the file in between returns Some(t).
C7_SaveThenGetRoundTrip ==
  (/\ lastOp = "get_token_from_cache"
   /\ saved # None
   /\ saved[1] # <<>>
   /\ ~HasLF(saved[1]))
  => ret = saved

C7_Witness ==
  /\ lastOp = "get_token_from_cache"
  /\ saved = Some(<<"a", CR>>)
  /\ ret = Some(<<"a", CR>>)

\* C8: when save_token(t) has returned, the content of the cache file is
\* exactly t, whatever the file held before and whether it existed or not.
C8_LastWriteWins ==
  (lastOp = "save_token" /\ ~panicked) =>
    /\ fileExists
    /\ saved # None
    /\ fileContent = saved[1]

C8_Witness ==
  /\ lastOp = "save_token"
  /\ ~panicked
  /\ prevLen = 3
  /\ fileContent = <<"b">>
  /\ saved = Some(<<"b">>)

\* the text of s before its first line terminator (LF, or CR LF), the whole
\* of s when it has none
TextBeforeFirstTerminator(s) ==
  LET ends(n) ==
        /\ \A k \in 1..n : s[k] # LF
        /\ \/ n = Len(s)
           \/ s[n + 1] = LF
           \/ (n + 2 <= Len(s) /\ s[n + 1] = CR /\ s[n + 2] = LF)
      n == CHOOSE n \in 0..Len(s) : ends(n) /\ \A j \in 0..(n - 1) : ~ends(j)
  IN SubSeq(s, 1, n)

\* C9: for a readable cache file with one or more lines get_token_from_cache
\* returns Some(the text before the first line terminator); the lines after
\* it contribute nothing.
C9_FirstLineOnly ==
  (/\ lastOp = "get_token_from_cache"
   /\ fileExists
   /\ OwnerCanRead(fileMode)
   /\ fileContent # <<>>)
  => ret = Some(TextBeforeFirstTerminator(fileContent))

C9_Witness ==
  /\ lastOp = "get_token_from_cache"
  /\ fileContent = <<"a", LF, "b">>
  /\ ret = Some(<<"a">>)

\* C10: when the cache file does not exist, cannot be read, or is empty,
\* get_token_from_cache returns None, does not panic, and leaves the cache
\* file and its directory as they were.
C10_Step ==
  (/\ lastOp' = "get_token_from_cache"
   /\ (~fileExists \/ ~OwnerCanRead(fileMode) \/ fileContent = <<>>))
  => /\ ret' = None
     /\ ~panicked'
     /\ UNCHANGED <<dirExists, fileExists, fileContent, fileMode>>

\* C10: every step that is such a get_token_from_cache call returns None
\* and changes nothing on disk.
C10_NoneWithoutSideEffect == [][C10_Step]_vars

C10_Witness ==
  /\ lastOp = "get_token_from_cache"
  /\ fileExists
  /\ fileContent = <<>>
  /\ prevLen = 0
  /\ ret = None

\* the cells whose cargo child has been spawned and not yet waited for
RunningCells == {c \in DOMAIN cells : cells[c] = "Launched"}

\* C12: at most one cargo child runs at any moment, it is the one run_cargo
\* waits for, and while it runs every cell launched before it has terminated
\* successfully.
C12_CellsNeverOverlap ==
  /\ Cardinality(RunningCells) <= 1
  /\ \A c \in RunningCells :
       /\ pc = "wait"
       /\ child = c
       /\ \A d \in DOMAIN cells \ {c} : spawned[d] >= 1 => cells[d] = "Succeeded"
  /\ pc # "wait" => RunningCells = {}

C12_Witness ==
  /\ NumCells >= 2
  /\ \E c, d \in DOMAIN cells :
       /\ c # d
       /\ cells[c] = "Succeeded"
       /\ cells[d] = "Launched"
       /\ child = d

\* the calls made on the App after its creation
AppCalls == SelectSeq(appLog, LAMBDA e : e.call # "new")

\* C14 (as claimed): for a non-empty selection command_run calls init, then
\* run with the selected benches and backends, then cleanup, each exactly
\* once, before the process ends.
C14_InitRunCleanupOnce ==
  (/\ pc = "exited"
   /\ Len(run_args.backends) > 0
   /\ Len(run_args.benches) > 0)
  => AppCalls = <<[call |-> "init"],
                  [call |-> "run", benches |-> run_args.benches,
                   backends |-> run_args.backends],
                  [call |-> "cleanup"]>>

\* C11: whenever save_token returns, token.txt exists with mode 0o600,
\* whatever its mode was before and whether it was created or overwritten.
C11_ModeUserOnlyOnReturn ==
  (lastOp = "save_token" /\ ~panicked) =>
    /\ fileExists
    /\ fileMode = ModeUserOnly

C11_Witness ==
  /\ lastOp = "save_token"
  /\ ~panicked
  /\ apc = "returned"
  /\ cache0.exists
  /\ cache0.mode = ModeNewFile
  /\ fileMode = ModeUserOnly

\* C13: save_token is called at most once, only after DeviceFlow::start and
\* flow.poll have both succeeded and with the token poll returned; when both
\* succeed it is called; when one fails the cache stays as it was and
\* command_auth returns.
C13_SaveOnlyOnSuccess ==
  /\ Len(saveCalls) <= 1
  /\ saveCalls # <<>> =>
       /\ startResult = "ok"
       /\ pollResult = "ok"
       /\ flowToken = Some(saveCalls[1])
  /\ (startResult = "ok" /\ pollResult = "ok") => Len(saveCalls) = 1
  /\ saveCalls = <<>> => CacheOnDisk = cache0
  /\ (startResult = "err" \/ pollResult = "err") =>
       /\ apc = "returned"
       /\ saveCalls = <<>>
       /\ CacheOnDisk = cache0

C13_Witness ==
  /\ apc = "returned"
  /\ startResult = "ok"
  /\ pollResult = "ok"
  /\ saveCalls = <<flowToken[1]>>
  /\ fileContent = flowToken[1]
  /\ cache0.content # fileContent

\* C15 (as claimed): in every state, the states inside save_token included,
\* a token.txt that holds bytes of a token has mode 0o600.
C15_TokenNeverWiderThanUserOnly ==
  (fileExists /\ holdsToken) => fileMode = ModeUserOnly

====
